---- MODULE Spec2Model ----
(***************************************************************************)
(* Document ingestion (lib/document_processor.py), retrieval and answer    *)
(* assembly (lib/qa_engine.py) and the session handlers that call them     *)
(* (app.py).                                                               *)
(*                                                                         *)
(* A string is modelled by the sequence of its whitespace-separated        *)
(* tokens.  A token w > 0 is a plain word, -w is the word w followed by a  *)
(* sentence terminator (. ! ?), and PAGE is a page marker line             *)
(* "\n--- Page N ---\n".  The empty string is the empty sequence.          *)
(***************************************************************************)
EXTENDS Integers, Sequences, FiniteSets, TLC

VARIABLES
    ck,                  \* the frame of a smart_chunk_text call
    index,               \* the persistent collection "knowledge_base"
    uuid_next,           \* number of identifiers uuid4 has handed out
    pd,                  \* the frame of a process_documents call
    vector_store,        \* st.session_state.vector_store
    documents_processed, \* st.session_state.documents_processed
    qa,                  \* the outcome of the last get_answer call
    session              \* counts of the session: runs, files uploaded, Clear All used

vars == <<ck, index, uuid_next, pd, vector_store, documents_processed, qa, session>>

systemVars == <<index, uuid_next, pd, vector_store, documents_processed, qa, session>>

(***************************************************************************)
(* Program constants                                                       *)
(***************************************************************************)
PAGE == 0
target_chunk_size == 800
overlap_size == 100
long_sentence_words == 500
min_chunk_words == 10
min_text_chars == 10
max_file_mb == 50
max_pdf_pages == 1000
batch_size == 50
add_batch_size == 100
n_results == 5
\* similarities and distances are counted in units of 0.0001, scores in
\* units of 0.001
ONE == 10000
similarity_threshold == 3000

(***************************************************************************)
(* Bounds of the model                                                     *)
(***************************************************************************)
MaxPieces == 3
MaxUploads == 2
MaxRuns == 2
BigPages == 101
MaxChunkerSteps == 8
MaxAskedDocs == 3

(***************************************************************************)
(* Helpers                                                                 *)
(***************************************************************************)
Min(S) == CHOOSE x \in S : \A y \in S : x <= y

\* The members of the set s, ascending, from the place of each among them.
Ascending(s) ==
    LET n == Cardinality(s)
    IN  CHOOSE q \in {[k \in 1..n |-> CHOOSE x \in s : place[x] = k] :
                         place \in {[x \in s |-> Cardinality({y \in s : y <= x})]}} : TRUE

\* The members of a set of positions, ascending; the set is worked out once.
SortedSeq(S) == CHOOSE q \in {Ascending(s) : s \in {S}} : TRUE

\* list[-n:]
LastWords(s, n) == IF Len(s) <= n THEN s ELSE SubSeq(s, Len(s) - n + 1, Len(s))

\* list.index(x), 1-based; 0 stands for ValueError.  An element equals the
\* joined words only when its raw text has no other whitespace (tidy).
IndexOf(list, s) ==
    LET hits == {i \in 1..Len(list) : list[i].tidy /\ list[i].words = s}
    IN  IF hits = {} THEN 0 ELSE Min(hits)

\* list.insert(i, x) with i the 0-based position: x becomes element i + 1.
InsertAt(list, i, x) == SubSeq(list, 1, i) \o <<x>> \o SubSeq(list, i + 1, Len(list))

(***************************************************************************)
(* smart_chunk_text                                                        *)
(***************************************************************************)
\* len(text.strip()): one character per word, one more for a terminator,
\* one separator between tokens; a marker line without its outer newlines.
TokenChars(w) == IF w = PAGE THEN 14 ELSE IF w < 0 THEN 2 ELSE 1

RECURSIVE SumChars(_, _)
SumChars(text, i) == IF i = 0 THEN 0 ELSE TokenChars(text[i]) + SumChars(text, i - 1)

\* not text or len(text.strip()) < 10; a text of ten tokens or more has at
\* least ten characters.
TextTooShort(text) ==
    /\ Len(text) < min_text_chars
    /\ SumChars(text, Len(text)) + Len(text) - 1 < min_text_chars

\* re.split(r'\n-{3,}\s*Page \d+ -{3,}\n', text).  The text before a marker
\* ends with the newline that precedes the marker line.
SplitSections(text) ==
    LET marks == SortedSeq({i \in 1..Len(text) : text[i] = PAGE})
        n == Len(marks)
        lo(k) == IF k = 1 THEN 1 ELSE marks[k - 1] + 1
        hi(k) == IF k = n + 1 THEN Len(text) ELSE marks[k] - 1
    IN  [k \in 1..(n + 1) |->
            [words |-> SubSeq(text, lo(k), hi(k)), trailing_ws |-> k <= n]]

\* re.split(r'(?<=[.!?])\s+', section): a cut at every whitespace run that
\* follows a terminator, the section's trailing whitespace included.
SplitSentences(section) ==
    LET w == section.words
        cuts == SortedSeq({i \in 1..Len(w) :
                    w[i] < 0 /\ (i < Len(w) \/ section.trailing_ws)})
        n == Len(cuts)
        lo(k) == IF k = 1 THEN 1 ELSE cuts[k - 1] + 1
        hi(k) == IF k = n + 1 THEN Len(w) ELSE cuts[k]
    IN  [k \in 1..(n + 1) |->
            [words |-> SubSeq(w, lo(k), hi(k)),
             tidy  |-> ~(k = n + 1 /\ section.trailing_ws)]]

ChunkMeta(filename, word_count) ==
    [source |-> filename, chunk_type |-> "text", word_count |-> word_count]

\* chunks.append((current_chunk, {...}))
AppendChunk(st) ==
    [st EXCEPT !.chunks = Append(@, [text |-> st.current_chunk,
                                     meta |-> ChunkMeta(st.filename, st.current_length)]),
               !.chunk_section = Append(@, st.section_i)]

\* Sentences appended without the test of line 146, no chunk ever closed
\* inside a section; C14 does not hold of it.
AccumulateNeverCloses(st, sentence) ==
    IF st.current_chunk # <<>>
    THEN [st EXCEPT !.current_chunk = @ \o sentence,
                    !.current_length = @ + Len(sentence)]
    ELSE [st EXCEPT !.current_chunk = sentence,
                    !.current_length = Len(sentence)]

\* The next chunk seeded with the sentence alone, the overlap left out; C13
\* does not hold of it.
AccumulateNoOverlap(st, sentence) ==
    LET sentence_length == Len(sentence)
    IN  IF st.current_length + sentence_length > target_chunk_size
           /\ st.current_chunk # <<>>
        THEN [AppendChunk(st) EXCEPT
                 !.current_chunk = sentence,
                 !.current_length = sentence_length]
        ELSE IF st.current_chunk # <<>>
        THEN [st EXCEPT !.current_chunk = @ \o sentence,
                        !.current_length = @ + sentence_length]
        ELSE [st EXCEPT !.current_chunk = sentence,
                        !.current_length = sentence_length]

\* The running count restarted at the sentence's words alone when a chunk is
\* closed, the overlap words left out of it; C23 does not hold of it.
AccumulateOverlapUncounted(st, sentence) ==
    LET sentence_length == Len(sentence)
    IN  IF st.current_length + sentence_length > target_chunk_size
           /\ st.current_chunk # <<>>
        THEN LET overlap_words == LastWords(st.current_chunk, overlap_size)
             IN  [AppendChunk(st) EXCEPT
                     !.current_chunk = overlap_words \o sentence,
                     !.current_length = sentence_length]
        ELSE IF st.current_chunk # <<>>
        THEN [st EXCEPT !.current_chunk = @ \o sentence,
                        !.current_length = @ + sentence_length]
        ELSE [st EXCEPT !.current_chunk = sentence,
                        !.current_length = sentence_length]

\* The overlap taken one word short; C3 does not hold of it.
OverlapWordsShort(current_chunk) == LastWords(current_chunk, overlap_size - 1)

\* current_chunk.split()[-overlap_size:]
OverlapWords(current_chunk) == LastWords(current_chunk, overlap_size)

\* lines 146-164: close the chunk and seed the next one, or append.
Accumulate(st, sentence) ==
    LET sentence_length == Len(sentence)
    IN  IF st.current_length + sentence_length > target_chunk_size
           /\ st.current_chunk # <<>>
        THEN LET overlap_words == OverlapWords(st.current_chunk)
             IN  [AppendChunk(st) EXCEPT
                     !.current_chunk = overlap_words \o sentence,
                     !.current_length = Len(overlap_words) + sentence_length]
        ELSE IF st.current_chunk # <<>>
        THEN [st EXCEPT !.current_chunk = @ \o sentence,
                        !.current_length = @ + sentence_length]
        ELSE [st EXCEPT !.current_chunk = sentence,
                        !.current_length = sentence_length]

\* A halving after which the loop meets the same long sentence again, the
\* list and the buffer left as they were; C24 does not hold of it.
SplitLongMeetsAgain(st, words) ==
    LET half_point == Len(words) \div 2
        first == SubSeq(words, 1, half_point)
        at == IndexOf(st.sentences, first)
    IN  IF at = 0
        THEN [st EXCEPT !.pc = "raised", !.error = "chunking"]
        ELSE [st EXCEPT !.sentence_i = @ - 1]

\* lines 137-143: the long sentence is halved; the second half is inserted
\* after the first list element equal to the FIRST half.
SplitLong(st, words) ==
    LET half_point == Len(words) \div 2
        first == SubSeq(words, 1, half_point)
        second == SubSeq(words, half_point + 1, Len(words))
        at == IndexOf(st.sentences, first)
    IN  IF at = 0
        THEN [st EXCEPT !.pc = "raised", !.error = "chunking"]
        ELSE Accumulate([st EXCEPT !.sentences =
                            InsertAt(@, at, [words |-> second, tidy |-> TRUE])],
                        first)

\* The frame of a call before its first statement.
Enter(text, filename) ==
    [pc |-> "entry", error |-> "none", text |-> text, filename |-> filename,
     sections |-> <<>>, section_i |-> 0,
     sentences |-> <<>>, sentence_i |-> 0,
     current_chunk |-> <<>>, current_length |-> 0,
     chunks |-> <<>>, chunk_section |-> <<>>]

\* lines 108-115
StepEntry(st) ==
    IF TextTooShort(st.text)
    THEN [st EXCEPT !.pc = "raised", !.error = "too_short"]
    ELSE [st EXCEPT !.pc = "section", !.sections = SplitSections(st.text)]

\* The loop over the sections with current_chunk and current_length kept from
\* one section to the next; C15 does not hold of it.
StepSectionKeepsChunk(st) ==
    IF st.section_i = Len(st.sections)
    THEN [st EXCEPT !.pc = "validate"]
    ELSE LET section == st.sections[st.section_i + 1]
         IN  IF section.words = <<>>
             THEN [st EXCEPT !.section_i = @ + 1]
             ELSE [st EXCEPT !.section_i = @ + 1,
                             !.sentences = SplitSentences(section),
                             !.sentence_i = 0,
                             !.pc = "sentence"]

\* lines 117-127: the head of the loop over the sections
StepSection(st) ==
    IF st.section_i = Len(st.sections)
    THEN [st EXCEPT !.pc = "validate"]
    ELSE LET section == st.sections[st.section_i + 1]
         IN  IF section.words = <<>>
             THEN [st EXCEPT !.section_i = @ + 1]
             ELSE [st EXCEPT !.section_i = @ + 1,
                             !.sentences = SplitSentences(section),
                             !.sentence_i = 0,
                             !.current_chunk = <<>>,
                             !.current_length = 0,
                             !.pc = "sentence"]

\* lines 129-164: one pass of the loop over the sentence list
StepSentence(st) ==
    IF st.sentence_i >= Len(st.sentences)
    THEN [st EXCEPT !.pc = "flush"]
    ELSE LET sentence == st.sentences[st.sentence_i + 1].words
             adv == [st EXCEPT !.sentence_i = @ + 1]
         IN  IF sentence = <<>> THEN adv
             ELSE IF Len(sentence) > long_sentence_words
             THEN SplitLong(adv, sentence)
             ELSE Accumulate(adv, sentence)

\* The flush without the word-count test of line 167; C2 does not hold of it.
StepFlushAny(st) ==
    IF st.current_chunk # <<>>
    THEN [AppendChunk(st) EXCEPT !.pc = "section"]
    ELSE [st EXCEPT !.pc = "section"]

\* lines 166-173
StepFlush(st) ==
    IF st.current_chunk # <<>> /\ st.current_length > min_chunk_words
    THEN [AppendChunk(st) EXCEPT !.pc = "section"]
    ELSE [st EXCEPT !.pc = "section"]

\* lines 175-179
StepValidate(st) ==
    IF st.chunks = <<>>
    THEN [st EXCEPT !.pc = "raised", !.error = "chunking"]
    ELSE [st EXCEPT !.pc = "returned"]

\* The loop over the sentences of one section, lines 129-164.
RECURSIVE RunSentences(_, _)
RunSentences(st, fuel) ==
    IF st.pc # "sentence" \/ fuel = 0 THEN st
    ELSE RunSentences(StepSentence(st), fuel - 1)

\* Lines 117-173 for section i alone: the frame after it, holding the chunks
\* of this section.
SectionFrame(st, i) ==
    LET entered == StepSection([st EXCEPT !.section_i = i - 1])
    IN  IF entered.pc # "sentence" THEN entered
        ELSE LET looped == RunSentences(entered, MaxChunkerSteps)
             IN  IF looped.pc = "flush" THEN StepFlush(looped) ELSE looped

\* The sections lo..hi in order; a section that raises ends the call.
RECURSIVE SectionRange(_, _, _)
SectionRange(st, lo, hi) ==
    IF lo > hi THEN [pc |-> "section", chunks |-> <<>>, chunk_section |-> <<>>]
    ELSE IF lo = hi
    THEN LET f == SectionFrame(st, lo)
         IN  [pc |-> f.pc, chunks |-> f.chunks, chunk_section |-> f.chunk_section]
    ELSE LET mid == (lo + hi) \div 2
             head == SectionRange(st, lo, mid)
             tail == SectionRange(st, mid + 1, hi)
         IN  IF head.pc # "section" THEN head
             ELSE IF tail.pc # "section" THEN tail
             ELSE [pc |-> "section", chunks |-> head.chunks \o tail.chunks,
                   chunk_section |-> head.chunk_section \o tail.chunk_section]

\* The call as a whole: its frame when it returns or raises ("hung": the
\* sentence loop did not end within MaxChunkerSteps passes).
smart_chunk_text(text, filename) ==
    LET entered == StepEntry(Enter(text, filename))
    IN  IF entered.pc = "raised" THEN entered
        ELSE LET r == SectionRange(entered, 1, Len(entered.sections))
             IN  CASE r.pc = "section" ->
                        StepValidate([entered EXCEPT
                            !.pc = "validate",
                            !.section_i = Len(entered.sections),
                            !.chunks = r.chunks,
                            !.chunk_section = r.chunk_section])
                   [] r.pc = "raised" ->
                        [entered EXCEPT !.pc = "raised", !.error = "chunking"]
                   [] OTHER -> [entered EXCEPT !.pc = "hung"]

(***************************************************************************)
(* Text extraction                                                         *)
(***************************************************************************)
\* An uploaded file: [stem, suffix, size_mb, content]; content is the
\* sequence of the page texts of a PDF, or the one decoded text of a TXT.
Name(file) == file.stem \o file.suffix

\* str.lower() on the suffixes in use
Lower(suffix) ==
    CASE suffix = ".PDF" -> ".pdf"
      [] suffix = ".TXT" -> ".txt"
      [] OTHER -> suffix

Supported(file) == Lower(file.suffix) \in {".pdf", ".txt"}

\* lines 55-67: every page lo..hi with text, behind its marker line
RECURSIVE PdfText(_, _, _)
PdfText(pages, lo, hi) ==
    IF lo > hi THEN <<>>
    ELSE IF lo = hi
    THEN (IF pages[lo] = <<>> THEN <<>> ELSE <<PAGE>> \o pages[lo])
    ELSE PdfText(pages, lo, (lo + hi) \div 2) \o PdfText(pages, (lo + hi) \div 2 + 1, hi)

ExtractFailed == [ok |-> FALSE, text |-> <<>>]

\* The extraction without validate_file's size test; C5 does not hold of it.
extract_text_unvalidated(file) ==
    IF Len(file.content) = 0 \/ Len(file.content) > max_pdf_pages THEN ExtractFailed
    ELSE IF \A p \in 1..Len(file.content) : file.content[p] = <<>> THEN ExtractFailed
    ELSE [ok |-> TRUE, text |-> PdfText(file.content, 1, Len(file.content))]

\* lines 42-85, validate_file included
extract_text_from_pdf(file) ==
    IF file.size_mb > max_file_mb THEN ExtractFailed
    ELSE IF Len(file.content) = 0 \/ Len(file.content) > max_pdf_pages THEN ExtractFailed
    ELSE IF \A p \in 1..Len(file.content) : file.content[p] = <<>> THEN ExtractFailed
    ELSE [ok |-> TRUE, text |-> PdfText(file.content, 1, Len(file.content))]

extract_text_from_txt(file) ==
    IF file.size_mb > max_file_mb THEN ExtractFailed
    ELSE IF file.content[1] = <<>> THEN ExtractFailed
    ELSE [ok |-> TRUE, text |-> file.content[1]]

(***************************************************************************)
(* process_documents                                                       *)
(***************************************************************************)
\* The embedding of a text, a value that depends on the text alone.
Encode(text) == [of |-> text]

IdleFrame ==
    [pc |-> "idle", error |-> "none", run |-> 0,
     uploaded_files |-> <<>>, file_i |-> 0,
     chunk_data |-> <<>>, batch_i |-> 0,
     all_chunks |-> <<>>, all_metadatas |-> <<>>, all_ids |-> <<>>,
     all_embeddings |-> <<>>, all_origins |-> <<>>,
     processed_files |-> 0, add_i |-> 0,
     outcomes |-> <<>>, index0 |-> <<>>]

\* lines 186-195; run and index0 record which call this is and the index it
\* found.
EnterProcess(uploaded_files, run, index0) ==
    IF uploaded_files = <<>>
    THEN [IdleFrame EXCEPT !.pc = "raised", !.error = "no_files",
                           !.run = run, !.index0 = index0]
    ELSE [IdleFrame EXCEPT !.pc = "files", !.run = run, !.index0 = index0,
                           !.uploaded_files = uploaded_files]

\* A failing file ends the call instead of being left behind; C4 does not
\* hold of it.
SkipFileAborts(st, why) ==
    IF why = "processed"
    THEN [st EXCEPT !.pc = "files", !.outcomes = Append(@, why),
                    !.chunk_data = <<>>, !.batch_i = 0]
    ELSE [st EXCEPT !.pc = "raised", !.error = why, !.outcomes = Append(@, why)]

\* lines 201-203 and 247-250: the file is left behind, the loop goes on.
SkipFile(st, why) ==
    [st EXCEPT !.pc = "files", !.outcomes = Append(@, why),
               !.chunk_data = <<>>, !.batch_i = 0]

\* lines 197-221: the head of the loop over the files, up to the chunking
StepFile(st) ==
    IF st.file_i = Len(st.uploaded_files)
    THEN [st EXCEPT !.pc = "check"]
    ELSE LET file == st.uploaded_files[st.file_i + 1]
             adv == [st EXCEPT !.file_i = @ + 1]
         IN  IF ~Supported(file) THEN SkipFile(adv, "unsupported")
             ELSE LET ex == IF Lower(file.suffix) = ".pdf"
                            THEN extract_text_from_pdf(file)
                            ELSE extract_text_from_txt(file)
                  IN  IF ~ex.ok THEN SkipFile(adv, "extract_failed")
                      ELSE LET c == smart_chunk_text(ex.text, Name(file))
                           IN  CASE c.pc = "returned" ->
                                       [adv EXCEPT !.pc = "embed",
                                                   !.chunk_data = c.chunks,
                                                   !.batch_i = 0]
                                 [] c.pc = "raised" -> SkipFile(adv, "chunk_failed")
                                 [] OTHER -> [adv EXCEPT !.pc = "hung"]

\* An identifier taken from the chunk's place in its batch; C11 does not hold
\* of it.
BatchLocalId(uuid_base, k) == k

\* str(uuid.uuid4()), line 236: the k-th identifier handed out after
\* uuid_base; uuid4 is taken never to repeat a value.
NewId(uuid_base, k) == uuid_base + k

\* lines 225-245: one embedding batch; ids are the next uuid4 values.
StepEmbed(st, encode_ok, uuid_base) ==
    LET hi == IF st.batch_i + batch_size < Len(st.chunk_data)
              THEN st.batch_i + batch_size ELSE Len(st.chunk_data)
        batch_chunks == SubSeq(st.chunk_data, st.batch_i + 1, hi)
        n == Len(batch_chunks)
        added == [st EXCEPT
                    !.all_chunks = @ \o [k \in 1..n |-> batch_chunks[k].text],
                    !.all_metadatas = @ \o [k \in 1..n |-> batch_chunks[k].meta],
                    !.all_ids = @ \o [k \in 1..n |-> NewId(uuid_base, k)],
                    !.all_embeddings = @ \o [k \in 1..n |-> Encode(batch_chunks[k].text)],
                    !.all_origins = @ \o [k \in 1..n |-> <<st.run, st.file_i>>],
                    !.batch_i = @ + batch_size]
    IN  IF ~encode_ok THEN SkipFile(st, "embed_failed")
        ELSE IF added.batch_i < Len(st.chunk_data) THEN added
        ELSE [SkipFile(added, "processed") EXCEPT !.processed_files = @ + 1]

\* The accumulated chunks stored before the test of line 260 is made; C22
\* does not hold of it.
StepCheckStoresFirst(st) ==
    IF st.all_chunks # <<>>
    THEN [st EXCEPT !.pc = "store", !.add_i = 0]
    ELSE IF st.processed_files = 0
    THEN [st EXCEPT !.pc = "raised", !.error = "none_processed"]
    ELSE [st EXCEPT !.pc = "returned"]

\* lines 259-267
StepCheck(st) ==
    IF st.processed_files = 0
    THEN [st EXCEPT !.pc = "raised", !.error = "none_processed"]
    ELSE IF st.all_chunks # <<>>
    THEN [st EXCEPT !.pc = "store", !.add_i = 0]
    ELSE [st EXCEPT !.pc = "returned"]

\* A storage batch cut from the start of the accumulated lists instead of
\* from add_i; C20 does not hold of it.
AddBatchFromStart(st) ==
    LET end_idx == IF st.add_i + add_batch_size < Len(st.all_chunks)
                   THEN st.add_i + add_batch_size ELSE Len(st.all_chunks)
    IN  [k \in 1..end_idx |->
            [id |-> st.all_ids[k],
             embedding |-> st.all_embeddings[k],
             document |-> st.all_chunks[k],
             metadata |-> st.all_metadatas[k],
             origin |-> st.all_origins[k]]]

\* lines 269-274: the records of the storage batch that starts at add_i
AddBatch(st) ==
    LET end_idx == IF st.add_i + add_batch_size < Len(st.all_chunks)
                   THEN st.add_i + add_batch_size ELSE Len(st.all_chunks)
    IN  [k \in 1..(end_idx - st.add_i) |->
            [id |-> st.all_ids[st.add_i + k],
             embedding |-> st.all_embeddings[st.add_i + k],
             document |-> st.all_chunks[st.add_i + k],
             metadata |-> st.all_metadatas[st.add_i + k],
             origin |-> st.all_origins[st.add_i + k]]]

\* A write that replaces the collection's records; C10 does not hold of it.
CollectionReplace(collection, records) == records

\* collection.add(...)
CollectionAdd(collection, records) == collection \o records

\* A failed write that is passed over, the loop going on with the next
\* batch; C9 does not hold of it.
StepAddSwallows(st, add_ok) ==
    IF st.add_i + add_batch_size < Len(st.all_chunks)
    THEN [st EXCEPT !.add_i = @ + add_batch_size]
    ELSE [st EXCEPT !.add_i = @ + add_batch_size, !.pc = "returned"]

\* lines 276-289: the frame after the write of one storage batch
StepAdd(st, add_ok) ==
    IF ~add_ok THEN [st EXCEPT !.pc = "raised", !.error = "storage"]
    ELSE IF st.add_i + add_batch_size < Len(st.all_chunks)
    THEN [st EXCEPT !.add_i = @ + add_batch_size]
    ELSE [st EXCEPT !.add_i = @ + add_batch_size, !.pc = "returned"]

(***************************************************************************)
(* Input texts of the chunker                                              *)
(***************************************************************************)
Words(n, terminated) == [i \in 1..n |-> IF i = n /\ terminated THEN -i ELSE i]

Pieces ==
    {<<PAGE>>}
    \cup {Words(n, TRUE) : n \in {10, 11, 400, 1000, 1600}}
    \cup {Words(n, FALSE) : n \in {500, 800}}

RECURSIVE TextsOf(_)
TextsOf(n) ==
    IF n = 0 THEN {<<>>}
    ELSE LET T == TextsOf(n - 1) IN T \cup {t \o p : t \in T, p \in Pieces}

(***************************************************************************)
(* Retrieval and answer assembly                                           *)
(***************************************************************************)
\* similarity = 1 - distance
Similarity(distance) == ONE - distance

\* round(similarity, 3): to the nearest thousandth, a tie to the even one
Round3(similarity) ==
    LET q == similarity \div 10
        r == similarity % 10
    IN  IF r > 5 \/ (r = 5 /\ q % 2 = 1) THEN q + 1 ELSE q

\* The threshold test made inclusive; C1 does not hold of it.
PassesThresholdInclusive(similarity) == similarity >= similarity_threshold

\* if similarity > 0.3
PassesThreshold(similarity) == similarity > similarity_threshold

\* meta['similarity_score'] = ...
WithScore(meta, score) ==
    [source |-> meta.source, chunk_type |-> meta.chunk_type,
     word_count |-> meta.word_count, similarity_score |-> score]

\* The filter with the metadata of every query result kept, that of the
\* discarded ones too; C16 does not hold of it.
find_relevant_chunks_all_metas(documents, metadatas, distances) ==
    LET n == Min({Len(documents), Len(metadatas), Len(distances)})
        keep == SortedSeq({i \in 1..n : PassesThreshold(Similarity(distances[i]))})
    IN  [docs  |-> [j \in 1..Len(keep) |-> documents[keep[j]]],
         metas |-> [j \in 1..n |->
                      WithScore(metadatas[j], Round3(Similarity(distances[j])))]]

\* lines 33-50: the filter over zip(documents, metadatas, distances)
find_relevant_chunks(documents, metadatas, distances) ==
    LET n == Min({Len(documents), Len(metadatas), Len(distances)})
        keep == SortedSeq({i \in 1..n : PassesThreshold(Similarity(distances[i]))})
    IN  [docs  |-> [j \in 1..Len(keep) |-> documents[keep[j]]],
         metas |-> [j \in 1..Len(keep) |->
                      WithScore(metadatas[keep[j]],
                                Round3(Similarity(distances[keep[j]])))]]

\* str() of a score: the shortest decimal, at least one fraction digit
FormatScore(score) ==
    LET whole == score \div 1000
        frac == score % 1000
        digits == IF frac % 100 = 0 THEN ToString(frac \div 100)
                  ELSE IF frac % 10 = 0
                  THEN ToString(frac \div 100) \o ToString((frac \div 10) % 10)
                  ELSE ToString(frac \div 100) \o ToString((frac \div 10) % 10)
                       \o ToString(frac % 10)
    IN  ToString(whole) \o "." \o digits

\* f"{source_name} (relevance: {similarity})"
FormatSource(source) ==
    source.source \o " (relevance: " \o FormatScore(source.similarity_score) \o ")"

\* The formatted strings without the removal of duplicates; C8 does not hold
\* of it.
KeepAll(formatted_sources, n) == SubSeq(formatted_sources, 1, n)

\* lines 122-127: the first occurrence of every string, in order
RECURSIVE UniqueInOrder(_, _)
UniqueInOrder(formatted_sources, n) ==
    IF n = 0 THEN <<>>
    ELSE LET before == UniqueInOrder(formatted_sources, n - 1)
             src == formatted_sources[n]
         IN  IF \E i \in 1..(n - 1) : formatted_sources[i] = src
             THEN before ELSE Append(before, src)

NoAnswer ==
    [pc |-> "none", error |-> "none", store |-> "None",
     hits |-> <<>>, distances |-> <<>>,
     relevant_chunks |-> <<>>, sources |-> <<>>,
     answer |-> "none", cited_sources |-> <<>>, llm_called |-> FALSE]

\* generate_answer without the test of line 57; C6 does not hold of it.
generate_answer_unguarded(call, context_chunks, sources, llm_ok) ==
    IF ~llm_ok
    THEN [call EXCEPT !.pc = "raised", !.error = "generate", !.llm_called = TRUE]
    ELSE [call EXCEPT !.pc = "returned", !.answer = "llm", !.llm_called = TRUE,
                      !.cited_sources =
                          UniqueInOrder([i \in 1..Len(sources) |-> FormatSource(sources[i])],
                                        Len(sources))]

\* lines 55-134; llm_ok: the chat completion call returns
generate_answer(call, context_chunks, sources, llm_ok) ==
    IF context_chunks = <<>>
    THEN [call EXCEPT !.pc = "returned", !.answer = "fallback", !.cited_sources = <<>>]
    ELSE IF ~llm_ok
    THEN [call EXCEPT !.pc = "raised", !.error = "generate", !.llm_called = TRUE]
    ELSE [call EXCEPT !.pc = "returned", !.answer = "llm", !.llm_called = TRUE,
                      !.cited_sources =
                          UniqueInOrder([i \in 1..Len(sources) |-> FormatSource(sources[i])],
                                        Len(sources))]

\* get_answer from line 141 on.  hits: the positions of the records the
\* index query returns, nearest first; distances: their distances; fail: the
\* external call that fails, if any.  A query on None raises inside
\* find_relevant_chunks.
QueryAndAnswer(call, collection, hits, distances, fail) ==
    IF fail = "init"
    THEN [call EXCEPT !.pc = "raised", !.error = "init"]
    ELSE IF fail = "search" \/ call.store = "None"
    THEN [call EXCEPT !.pc = "raised", !.error = "search"]
    ELSE LET found == find_relevant_chunks(
                          [i \in 1..Len(hits) |-> collection[hits[i]].document],
                          [i \in 1..Len(hits) |-> collection[hits[i]].metadata],
                          distances)
             searched == [call EXCEPT !.hits = hits, !.distances = distances,
                                      !.relevant_chunks = found.docs,
                                      !.sources = found.metas]
         IN  generate_answer(searched, found.docs, found.metas, fail # "llm")

\* get_answer without the test of line 138; C7 does not hold of it.
get_answer_unchecked(store, collection, hits, distances, fail) ==
    QueryAndAnswer([NoAnswer EXCEPT !.store = store], collection, hits, distances, fail)

\* get_answer, lines 136-149
get_answer(store, collection, hits, distances, fail) ==
    LET call == [NoAnswer EXCEPT !.store = store]
    IN  IF store = "None"
        THEN [call EXCEPT !.pc = "raised", !.error = "no_documents"]
        ELSE QueryAndAnswer(call, collection, hits, distances, fail)

(***************************************************************************)
(* What the collaborators may answer                                       *)
(***************************************************************************)
Distances == {1500, 6996, 7000}

\* The index query returns min(n, count) records, nearest first.
\* AnyReplies: every order of every choice of records, with every
\* non-decreasing choice of distances.
AnyReplies(collection, n) ==
    LET count == Len(collection)
        k == IF n < count THEN n ELSE count
    IN  {[hits |-> h, distances |-> d] :
            h \in {h \in [1..k -> 1..count] : \A i, j \in 1..k : i # j => h[i] # h[j]},
            d \in {d \in [1..k -> Distances] : \A i \in 1..(k - 1) : d[i] <= d[i + 1]}}

\* InsertionOrderReplies: the first records of the collection, all at the
\* same distance.
InsertionOrderReplies(collection, n) ==
    LET count == Len(collection)
        k == IF n < count THEN n ELSE count
    IN  {[hits |-> [i \in 1..k |-> i], distances |-> [i \in 1..k |-> d]] : d \in Distances}

FileKinds ==
    { [stem |-> "a", suffix |-> ".txt", size_mb |-> 1, content |-> <<Words(11, TRUE)>>],
      [stem |-> "f", suffix |-> ".TXT", size_mb |-> 1, content |-> <<Words(12, TRUE)>>],
      [stem |-> "b", suffix |-> ".PDF", size_mb |-> 2,
          content |-> [p \in 1..BigPages |-> Words(11, TRUE)]],
      [stem |-> "c", suffix |-> ".pdf", size_mb |-> 1, content |-> << <<>>, <<>> >>],
      [stem |-> "g", suffix |-> ".pdf", size_mb |-> 51, content |-> <<Words(11, TRUE)>>],
      [stem |-> "d", suffix |-> ".txt", size_mb |-> 1, content |-> <<Words(10, TRUE)>>],
      [stem |-> "e", suffix |-> ".docx", size_mb |-> 1, content |-> <<Words(11, TRUE)>>] }

RECURSIVE FileSeqs(_, _)
FileSeqs(kinds, n) ==
    IF n = 0 THEN {<<>>}
    ELSE LET S == FileSeqs(kinds, n - 1) IN S \cup {Append(s, f) : s \in S, f \in kinds}

(***************************************************************************)
(* The session: ingestion runs, Clear All, questions                       *)
(***************************************************************************)
InitSystem ==
    /\ index = <<>>
    /\ uuid_next = 0
    /\ pd = IdleFrame
    /\ vector_store = "None"
    /\ documents_processed = FALSE
    /\ qa = NoAnswer
    /\ session = [runs |-> 0, uploads |-> 0, cleared |-> FALSE]

\* app.py lines 210-223: the Process Documents button up to the call (the
\* button is shown with files only; a direct call can pass none)
ProcessDocuments ==
    /\ pd.pc = "idle"
    /\ session.runs < MaxRuns
    /\ \E uploaded_files \in FileSeqs(FileKinds, MaxUploads - session.uploads) :
          /\ pd' = EnterProcess(uploaded_files, session.runs + 1, index)
          /\ session' = [session EXCEPT !.runs = @ + 1,
                                        !.uploads = @ + Len(uploaded_files)]
    /\ vector_store' = "None"
    /\ documents_processed' = FALSE
    /\ qa' = NoAnswer
    /\ UNCHANGED <<ck, index, uuid_next>>

NextFile ==
    /\ pd.pc = "files"
    /\ pd' = StepFile(pd)
    /\ UNCHANGED <<ck, index, uuid_next, vector_store, documents_processed, qa, session>>

EmbedBatch ==
    /\ pd.pc = "embed"
    /\ \E encode_ok \in BOOLEAN :
          /\ pd' = StepEmbed(pd, encode_ok, uuid_next)
          /\ uuid_next' = IF encode_ok THEN uuid_next + (Len(pd'.all_ids) - Len(pd.all_ids))
                          ELSE uuid_next
    /\ UNCHANGED <<ck, index, vector_store, documents_processed, qa, session>>

CheckProcessed ==
    /\ pd.pc = "check"
    /\ pd' = StepCheck(pd)
    /\ UNCHANGED <<ck, index, uuid_next, vector_store, documents_processed, qa, session>>

StoreBatch ==
    /\ pd.pc = "store"
    /\ \E add_ok \in BOOLEAN :
          /\ pd' = StepAdd(pd, add_ok)
          /\ index' = IF add_ok THEN CollectionAdd(index, AddBatch(pd)) ELSE index
    /\ UNCHANGED <<ck, uuid_next, vector_store, documents_processed, qa, session>>

\* app.py lines 223-236: the call has returned or raised
FinishProcess ==
    /\ pd.pc \in {"returned", "raised"}
    /\ IF pd.pc = "returned"
       THEN vector_store' = "collection" /\ documents_processed' = TRUE
       ELSE UNCHANGED <<vector_store, documents_processed>>
    /\ pd' = IdleFrame
    /\ UNCHANGED <<ck, index, uuid_next, qa, session>>

\* app.py lines 254-256 and clear_documents
ClearAll ==
    /\ pd.pc = "idle"
    /\ documents_processed
    /\ vector_store' = "None"
    /\ documents_processed' = FALSE
    /\ qa' = NoAnswer
    /\ session' = [session EXCEPT !.cleared = TRUE]
    /\ UNCHANGED <<ck, index, uuid_next, pd>>

\* A query whose result metadata are the stored ones, so that the score
\* written into them reaches the collection; C17 does not hold of it.
CollectionQueryAliased(collection) ==
    [k \in 1..Len(collection) |->
        [collection[k] EXCEPT !.metadata = WithScore(@, 0)]]

\* collection.query(...), qa_engine.py lines 27-31: a read, the collection
\* is left as it is; the metadata it returns are copies.
CollectionQuery(collection) == collection

\* Every outcome of get_answer(question, store) on the present index, for
\* the given replies of the index query.
Answers(store, replies) ==
    {get_answer(store, index, <<>>, <<>>, fail) : fail \in {"init", "search"}}
    \cup
    {get_answer(store, index, r.hits, r.distances, fail) :
        r \in replies, fail \in {"none", "llm"}}

\* app.py lines 283-310: the Ask Question button, shown once documents are
\* processed, passes the session's store.
AskQuestion ==
    /\ pd.pc = "idle"
    /\ documents_processed
    /\ qa' \in Answers(vector_store, InsertionOrderReplies(index, n_results))
    /\ index' = CollectionQuery(index)
    /\ UNCHANGED <<ck, uuid_next, pd, vector_store, documents_processed, session>>

\* get_answer called by another caller: without a store, or with the handle
\* that get_or_create_collection gives.
CallGetAnswer ==
    /\ pd.pc = "idle"
    /\ \E store \in {"None", "collection"} :
          qa' \in Answers(store, InsertionOrderReplies(index, n_results))
    /\ index' = CollectionQuery(index)
    /\ UNCHANGED <<ck, uuid_next, pd, vector_store, documents_processed, session>>

Init == InitSystem /\ ck = Enter(<<>>, "")

Next ==
    \/ ProcessDocuments
    \/ NextFile
    \/ EmbedBatch
    \/ CheckProcessed
    \/ StoreBatch
    \/ FinishProcess
    \/ ClearAll
    \/ AskQuestion
    \/ CallGetAnswer

Spec == Init /\ [][Next]_vars

(***************************************************************************)
(* The chunker, one statement group at a time                              *)
(***************************************************************************)
\* count sentences of len words each, every word of the text another one
Sentences(count, len) ==
    [p \in 1..(count * len) |-> IF p % len = 0 THEN -p ELSE p]

\* Whole documents: 50 words, and 2000 words in sentences of 10, 80, 100, 400
\* and 500 words and without any terminator.
DocumentTexts ==
    {Sentences(5, 10), Sentences(200, 10), Sentences(25, 80), Sentences(20, 100),
     Sentences(5, 400), Sentences(4, 500), Words(2000, FALSE)}

InitChunk ==
    /\ InitSystem
    /\ \E text \in TextsOf(MaxPieces) \cup DocumentTexts : ck = Enter(text, "doc.txt")

ChunkEntry == ck.pc = "entry" /\ ck' = StepEntry(ck) /\ UNCHANGED systemVars

ChunkSection == ck.pc = "section" /\ ck' = StepSection(ck) /\ UNCHANGED systemVars

ChunkSentence == ck.pc = "sentence" /\ ck' = StepSentence(ck) /\ UNCHANGED systemVars

ChunkFlush == ck.pc = "flush" /\ ck' = StepFlush(ck) /\ UNCHANGED systemVars

ChunkValidate == ck.pc = "validate" /\ ck' = StepValidate(ck) /\ UNCHANGED systemVars

NextChunk ==
    \/ ChunkEntry
    \/ ChunkSection
    \/ ChunkSentence
    \/ ChunkFlush
    \/ ChunkValidate

SpecChunk == InitChunk /\ [][NextChunk]_vars

\* The call as it runs: one thread that takes its next statement as long as
\* it has one.
SpecChunkFair == InitChunk /\ [][NextChunk]_vars /\ WF_vars(NextChunk)

(***************************************************************************)
(* Questions on a small collection, with every reply of the index query    *)
(***************************************************************************)
\* process_documents from frame st to its end when no collaborator fails:
\* the collection it leaves.
RECURSIVE RunProcess(_, _, _)
RunProcess(st, collection, uuid_base) ==
    CASE st.pc = "files" -> RunProcess(StepFile(st), collection, uuid_base)
      [] st.pc = "embed" ->
            LET embedded == StepEmbed(st, TRUE, uuid_base)
            IN  RunProcess(embedded, collection,
                           uuid_base + Len(embedded.all_ids) - Len(st.all_ids))
      [] st.pc = "check" -> RunProcess(StepCheck(st), collection, uuid_base)
      [] st.pc = "store" ->
            RunProcess(StepAdd(st, TRUE), CollectionAdd(collection, AddBatch(st)), uuid_base)
      [] OTHER -> collection

Ingested(uploaded_files) == RunProcess(EnterProcess(uploaded_files, 1, <<>>), <<>>, 0)

OneChunkKinds == {f \in FileKinds : f.stem \in {"a", "f"}}

\* A PDF of one page more than a query asks records for, every page another
\* text.
ManyPages ==
    [stem |-> "h", suffix |-> ".pdf", size_mb |-> 1,
     content |-> [p \in 1..(n_results + 1) |-> Words(10 + p, TRUE)]]

InitQA ==
    /\ ck = Enter(<<>>, "")
    /\ \E uploaded_files \in FileSeqs(OneChunkKinds, MaxAskedDocs) \cup {<<ManyPages>>} :
          /\ index = Ingested(uploaded_files)
          /\ session = [runs |-> 1, uploads |-> Len(uploaded_files), cleared |-> FALSE]
    /\ uuid_next = Len(index)
    /\ pd = IdleFrame
    /\ vector_store = (IF index = <<>> THEN "None" ELSE "collection")
    /\ documents_processed = (index # <<>>)
    /\ qa = NoAnswer

\* get_answer keeps nothing between two calls: one call on each collection,
\* with every reply the index query can give.
GetAnswerAnyReply ==
    /\ pd.pc = "idle"
    /\ qa = NoAnswer
    /\ \E store \in {"None", "collection"} :
          qa' \in Answers(store, AnyReplies(index, n_results))
    /\ index' = CollectionQuery(index)
    /\ UNCHANGED <<ck, uuid_next, pd, vector_store, documents_processed, session>>

NextQA == GetAnswerAnyReply

SpecQA == InitQA /\ [][NextQA]_vars

(***************************************************************************)
(* Properties                                                              *)
(***************************************************************************)
\* The call of get_answer has come back from find_relevant_chunks.
Searched == qa.pc # "none" /\ qa.error \notin {"no_documents", "init", "search"}

\* C1, as the code has it: find_relevant_chunks returns exactly the query
\* results whose similarity 1 - distance is strictly greater than 0.3, in the
\* order of the query; the score attached to each is that similarity rounded
\* to 3 decimals, which is at least 0.3 (and equal to 0.3 for a similarity
\* between 0.3 and 0.3005).
C1_ThresholdOnSimilarity ==
    Searched =>
        LET kept == SortedSeq({i \in 1..Len(qa.distances) :
                                  ONE - qa.distances[i] > similarity_threshold})
        IN  /\ Len(qa.relevant_chunks) = Len(kept)
            /\ Len(qa.sources) = Len(kept)
            /\ \A j \in 1..Len(kept) :
                  /\ qa.relevant_chunks[j] = index[qa.hits[kept[j]]].document
                  /\ qa.sources[j].source = index[qa.hits[kept[j]]].metadata.source
                  /\ qa.sources[j].similarity_score = Round3(ONE - qa.distances[kept[j]])
                  /\ qa.sources[j].similarity_score * 10 >= similarity_threshold

\* C1, witness: a result of similarity 0.3004 is returned with the score 0.3
\* while a result of similarity 0.3 of the same query is discarded.
C1_Witness ==
    /\ Searched
    /\ \E i \in 1..Len(qa.distances) : ONE - qa.distances[i] = similarity_threshold
    /\ \E j \in 1..Len(qa.sources) :
          qa.sources[j].similarity_score * 10 = similarity_threshold

\* C1, as the claim has it: every attached similarity_score is strictly
\* greater than 0.3.
C1_ScoreStrictlyAbove ==
    Searched =>
        \A j \in 1..Len(qa.sources) :
            qa.sources[j].similarity_score * 10 > similarity_threshold

\* C2: every chunk that smart_chunk_text returns, closed inside a section or
\* flushed at the end of one, has a word_count greater than 10 and a text
\* that holds at least one word (and no page marker).
C2_ChunksAboveTenWords ==
    ck.pc = "returned" =>
        \A i \in 1..Len(ck.chunks) :
            /\ ck.chunks[i].meta.word_count > 10
            /\ ck.chunks[i].text # <<>>
            /\ \A k \in 1..Len(ck.chunks[i].text) : ck.chunks[i].text[k] # PAGE

\* C2, witness: a call returns two chunks of one section, the first closed
\* when the next sentence would have passed the target, the second flushed
\* at the end of the section.
C2_Witness ==
    /\ ck.pc = "returned"
    /\ Len(ck.chunks) = 2
    /\ ck.chunk_section[1] = ck.chunk_section[2]
    /\ ck.chunks[1].meta.word_count + 500 > 800

\* C3: in the returned chunk sequence, a chunk that follows another chunk of
\* the same page-section begins with the last 100 words of that chunk.
C3_OverlapWithinSection ==
    ck.pc = "returned" =>
        \A i \in 1..(Len(ck.chunks) - 1) :
            ck.chunk_section[i] = ck.chunk_section[i + 1] =>
                LET prev == ck.chunks[i].text
                    next == ck.chunks[i + 1].text
                IN  /\ Len(prev) >= 100
                    /\ Len(next) >= 100
                    /\ SubSeq(next, 1, 100) = SubSeq(prev, Len(prev) - 99, Len(prev))

\* C3, witness: a call returns three chunks of one section, the second and
\* the third each longer than the overlap they begin with.
C3_Witness ==
    /\ ck.pc = "returned"
    /\ \E i \in 1..(Len(ck.chunks) - 2) :
          /\ ck.chunk_section[i] = ck.chunk_section[i + 2]
          /\ Len(ck.chunks[i + 1].text) > 100
          /\ Len(ck.chunks[i + 2].text) > 100

\* The files of the call that were fully processed.
ProcessedFiles(st) == {i \in 1..Len(st.outcomes) : st.outcomes[i] = "processed"}

\* The file can be extracted and chunked.
Sound(file) ==
    /\ Supported(file)
    /\ LET ex == IF Lower(file.suffix) = ".pdf" THEN extract_text_from_pdf(file)
                 ELSE extract_text_from_txt(file)
       IN  ex.ok /\ smart_chunk_text(ex.text, Name(file)).pc = "returned"

\* The files of FileKinds that can be extracted and chunked.
SoundKinds == {f \in FileKinds : Sound(f)}

\* The call has ended after its loop over the files.
EndedAfterFiles(st) == st.pc \in {"returned", "raised"} /\ st.error # "no_files"

\* C4, as the code has it: a file whose extraction or chunking fails is left
\* behind and every other file is still handled; processed_files counts the
\* fully processed files; the call raises when there is none, and when there
\* is one it returns unless a storage-batch write fails, which also raises.
C4_SkipsFailuresStorageCanStillFail ==
    /\ pd.processed_files = Cardinality(ProcessedFiles(pd))
    /\ \A i \in 1..Len(pd.outcomes) :
          /\ pd.uploaded_files[i] \notin SoundKinds =>
                pd.outcomes[i] \in {"unsupported", "extract_failed", "chunk_failed"}
          /\ pd.uploaded_files[i] \in SoundKinds =>
                pd.outcomes[i] \in {"processed", "embed_failed"}
    /\ EndedAfterFiles(pd) => Len(pd.outcomes) = Len(pd.uploaded_files)
    /\ pd.pc = "returned" => pd.processed_files >= 1
    /\ pd.pc = "raised" =>
          \/ pd.error = "no_files"
          \/ pd.error = "none_processed" /\ pd.processed_files = 0
          \/ pd.error = "storage" /\ pd.processed_files >= 1

\* C4, witness: a call returns after its first file has failed extraction or
\* chunking and its second file has been processed.
C4_Witness ==
    /\ pd.pc = "returned"
    /\ Len(pd.outcomes) >= 2
    /\ pd.outcomes[1] \in {"extract_failed", "chunk_failed"}
    /\ pd.outcomes[2] = "processed"

\* C4, as the claim has it: the call returns if at least one document was
\* fully processed and raises if none was.
C4_ReturnsIffOneProcessed ==
    EndedAfterFiles(pd) => (pd.pc = "returned" <=> pd.processed_files >= 1)

\* Extraction of the file raises: the size limit, or no page with text.
ExtractionFails(file) ==
    \/ file.size_mb > 50
    \/ \A p \in 1..Len(file.content) : file.content[p] = <<>>

\* The names of the files of FileKinds whose extraction raises.
FailingNames == {Name(f) : f \in {f \in FileKinds : Supported(f) /\ ExtractionFails(f)}}

\* C5: no record of the index has a file that fails extraction as its
\* source, in this run or an earlier one; a run with such a file and a
\* processed file raises only for a failed storage write, and when it returns
\* the chunks of every processed file are in the index.
C5_FailedExtractionLeavesNoChunk ==
    /\ \A k \in 1..Len(index) :
          /\ index[k].metadata.source \notin FailingNames
          /\ index[k].origin[1] = pd.run =>
                /\ pd.outcomes[index[k].origin[2]] # "extract_failed"
                /\ ~ExtractionFails(pd.uploaded_files[index[k].origin[2]])
    /\ (\E i \in 1..Len(pd.outcomes) : pd.outcomes[i] = "extract_failed") =>
          /\ pd.pc = "raised" /\ ProcessedFiles(pd) # {} => pd.error = "storage"
          /\ pd.pc = "returned" =>
                \A i \in ProcessedFiles(pd) :
                    \E k \in 1..Len(index) : index[k].origin = <<pd.run, i>>

\* C5, witness: a run returns with records written for its first file while
\* its second file, a PDF over the size limit, failed extraction.
C5_Witness ==
    /\ pd.pc = "returned"
    /\ Len(pd.outcomes) >= 2
    /\ pd.outcomes[1] = "processed"
    /\ pd.outcomes[2] = "extract_failed"
    /\ pd.uploaded_files[2].size_mb > 50
    /\ \E k \in 1..Len(index) : index[k].origin = <<pd.run, 1>>

\* C6: when find_relevant_chunks returns nothing, generate_answer returns
\* the fallback message with an empty citation list, does not raise, and the
\* chat completion is not called.
C6_EmptyRetrievalFallsBack ==
    Searched /\ qa.relevant_chunks = <<>> =>
        /\ qa.pc = "returned"
        /\ qa.answer = "fallback"
        /\ qa.cited_sources = <<>>
        /\ ~qa.llm_called

\* C6, witness: the index query returned records, none passed the threshold,
\* and the call returned the fallback.
C6_Witness ==
    /\ qa.pc = "returned"
    /\ qa.hits # <<>>
    /\ qa.relevant_chunks = <<>>
    /\ qa.answer = "fallback"

\* C7, as the code has it: the session holds no store until a run returns
\* (and again after Clear All), and the question box is shown only with a
\* store; get_answer called without a store raises "No documents processed
\* yet" and neither queries nor calls the chat completion; called on an empty
\* collection, and the engine and the query not failing, it returns the
\* fallback message with an empty citation list.
C7_NoStoreRaisesEmptyCollectionFallsBack ==
    /\ documents_processed <=> vector_store # "None"
    /\ index = <<>> => vector_store = "None"
    /\ qa.pc # "none" /\ qa.store = "None" =>
          /\ qa.pc = "raised"
          /\ qa.error = "no_documents"
          /\ qa.answer = "none"
          /\ ~qa.llm_called
    /\ Searched /\ index = <<>> =>
          /\ qa.pc = "returned"
          /\ qa.answer = "fallback"
          /\ qa.cited_sources = <<>>
          /\ ~qa.llm_called

\* C7, witness: nothing is ingested and get_answer, called without a store,
\* has raised.
C7_Witness ==
    /\ index = <<>>
    /\ qa.store = "None"
    /\ qa.pc = "raised"
    /\ qa.error = "no_documents"

\* C7, as the claim has it: with nothing ingested, get_answer (the engine and
\* the query not failing) returns the fallback message and an empty citation
\* list.
C7_NoDocumentsFallsBack ==
    index = <<>> /\ qa.pc # "none" /\ qa.error \notin {"init", "search"} =>
        /\ qa.pc = "returned"
        /\ qa.answer = "fallback"
        /\ qa.cited_sources = <<>>
        /\ ~qa.llm_called

\* C8: the citation list of a synthesized answer holds every formatted string
\* "<source> (relevance: <similarity_score>)" of the retrieval results
\* exactly once, in the order of the strings' first occurrences.
C8_CitationsOnceInFirstOrder ==
    qa.pc = "returned" /\ qa.answer = "llm" =>
        LET formatted == [i \in 1..Len(qa.sources) |-> FormatSource(qa.sources[i])]
            cited == qa.cited_sources
            first(c) == Min({i \in 1..Len(formatted) : formatted[i] = c})
        IN  /\ \A i, j \in 1..Len(cited) : i # j => cited[i] # cited[j]
            /\ {cited[i] : i \in 1..Len(cited)} = {formatted[i] : i \in 1..Len(formatted)}
            /\ \A i, j \in 1..Len(cited) : i < j => first(cited[i]) < first(cited[j])

\* C8, witness: three results, the first and the third with the same source
\* and score and the second with another source, give two citations.
C8_Witness ==
    /\ qa.pc = "returned"
    /\ qa.answer = "llm"
    /\ Len(qa.sources) = 3
    /\ qa.sources[1] = qa.sources[3]
    /\ qa.sources[1].source # qa.sources[2].source
    /\ Len(qa.cited_sources) = 2

\* The records of the call's lists at positions lo + 1 .. hi.
RunRecords(st, lo, hi) ==
    [k \in 1..(hi - lo) |->
        [id |-> st.all_ids[lo + k], embedding |-> st.all_embeddings[lo + k],
         document |-> st.all_chunks[lo + k], metadata |-> st.all_metadatas[lo + k],
         origin |-> st.all_origins[lo + k]]]

\* C9: a storage step that writes nothing (the write failed; a failed write
\* is taken to leave the collection as it was) ends the call with the
\* storage error; a call ended so makes no further write; and the index then
\* holds what it held before the run followed by the run's storage batches
\* before the failed one, in order.
C9_StorageFailureAborts ==
    [][/\ pd.pc = "store" /\ pd' # pd /\ index' = index =>
              pd'.pc = "raised" /\ pd'.error = "storage" /\ pd'.add_i = pd.add_i
       /\ pd.pc = "raised" => index' = index
       /\ pd'.pc = "raised" /\ pd'.error = "storage" =>
              /\ pd'.add_i % 100 = 0
              /\ pd'.add_i < Len(pd'.all_chunks)
              /\ index' = pd'.index0 \o RunRecords(pd', 0, pd'.add_i)]_vars

\* C9, witness: on an index that held records, the second storage batch of a
\* run failed after the first was written.
C9_Witness ==
    /\ pd.pc = "raised"
    /\ pd.error = "storage"
    /\ pd.index0 # <<>>
    /\ pd.add_i = 100
    /\ Len(index) = Len(pd.index0) + 100

\* C10: no step removes or changes a record of the index: the index before a
\* step is a prefix of the index after it.
C10_AppendOnly ==
    [][/\ Len(index') >= Len(index)
       /\ SubSeq(index', 1, Len(index)) = index]_vars

\* C10, witness: after Clear All, a second run has written its records
\* behind those of the first run.
C10_Witness ==
    /\ session.cleared
    /\ pd.run = 2
    /\ pd.index0 # <<>>
    /\ Len(index) > Len(pd.index0)
    /\ SubSeq(index, 1, Len(pd.index0)) = pd.index0

\* C11: no two records of the index share an id, within a run or across
\* runs, whatever their texts; the ids of a call's chunks are given before
\* any of them is stored, one to each chunk.
C11_IdsUnique ==
    LET stored == {index[i].id : i \in 1..Len(index)}
        given == {pd.all_ids[i] : i \in 1..Len(pd.all_ids)}
        found == {pd.index0[j].id : j \in 1..Len(pd.index0)}
    IN  /\ Cardinality(stored) = Len(index)
        /\ Cardinality(given) = Len(pd.all_ids)
        /\ Len(pd.all_ids) = Len(pd.all_chunks)
        /\ given \cap found = {}

\* C11, witness: the index holds two records of one run and a record of
\* another run, all with the same text and the same source.
C11_Witness ==
    /\ Len(index) >= 3
    /\ LET i == 1  j == 2  k == Len(index)
       IN  /\ index[i].document = index[j].document
           /\ index[j].document = index[k].document
           /\ index[i].metadata = index[k].metadata
           /\ index[i].origin[1] = index[j].origin[1]
           /\ index[j].origin[1] # index[k].origin[1]

\* The call was given one page-section of fewer than 800 words and has ended.
ShortSingleSection(st) ==
    /\ st.pc \in {"returned", "raised"}
    /\ Len(st.text) < 800
    /\ \A k \in 1..Len(st.text) : st.text[k] # PAGE

\* C12, as the claim has it, for documents of more than 10 words (a chunk of
\* 10 words or fewer is discarded by line 167, and the call then raises): a
\* single-section document of fewer than 800 words yields exactly one chunk,
\* whose text is the whole input, whose word_count is the number of words of
\* the input and whose source is the filename.
C12_ShortDocumentOneChunk ==
    ShortSingleSection(ck) /\ Len(ck.text) > 10 =>
        /\ ck.pc = "returned"
        /\ Len(ck.chunks) = 1
        /\ ck.chunks[1].text = ck.text
        /\ ck.chunks[1].meta.word_count = Len(ck.text)
        /\ ck.chunks[1].meta.source = ck.filename

\* Every sentence of the text has at most n words: from every word, the
\* sentence ends within n words.
SentencesAtMost(text, n) ==
    \A i \in 1..Len(text) :
        \E k \in i..(i + n - 1) : k >= Len(text) \/ text[k] < 0

\* The call was given one page-section of 2000 words and has ended.
TwoThousandWords(st) ==
    /\ st.pc \in {"returned", "raised"}
    /\ Len(st.text) = 2000
    /\ \A k \in 1..Len(st.text) : st.text[k] # PAGE

\* The returned chunks are three, each but the first beginning with the last
\* 100 words of the one before it.
ThreeChunksWithOverlap(st) ==
    /\ st.pc = "returned"
    /\ Len(st.chunks) = 3
    /\ \A i \in 1..2 :
          /\ Len(st.chunks[i].text) >= 100
          /\ Len(st.chunks[i + 1].text) >= 100
          /\ SubSeq(st.chunks[i + 1].text, 1, 100)
                = SubSeq(st.chunks[i].text, Len(st.chunks[i].text) - 99,
                         Len(st.chunks[i].text))

LastSentenceWords(text) ==
    LET ends == {k \in 1..(Len(text) - 1) : text[k] < 0}
    IN  IF ends = {} THEN Len(text)
        ELSE Len(text) - CHOOSE k \in ends : \A j \in ends : j <= k

\* C14: every returned chunk has a word_count of at most 800 plus the words
\* of one sentence, its last; the code keeps it at 800 or below, since a
\* sentence is appended only while the sum stays within 800 and a new chunk
\* starts with at most 100 + 500 words.
C14_ChunkWithinTargetPlusSentence ==
    ck.pc = "returned" =>
        \A i \in 1..Len(ck.chunks) :
            /\ ck.chunks[i].meta.word_count <= 800 + LastSentenceWords(ck.chunks[i].text)
            /\ ck.chunks[i].meta.word_count - LastSentenceWords(ck.chunks[i].text) <= 800
            /\ ck.chunks[i].meta.word_count <= 800

\* C14, witness: a call returns a chunk of exactly 800 words made of several
\* sentences, closed before a sentence that would have passed the target.
C14_Witness ==
    /\ ck.pc = "returned"
    /\ \E i \in 1..(Len(ck.chunks) - 1) :
          /\ ck.chunks[i].meta.word_count = 800
          /\ LastSentenceWords(ck.chunks[i].text) < 800
          /\ ck.chunk_section[i] = ck.chunk_section[i + 1]

\* C15, as the code has it: the overlap is carried inside a page-section
\* only.  current_chunk is emptied at the head of every section (line 124),
\* so the first chunk of a section begins with the first sentence of that
\* section (with its first half, for a sentence of more than 500 words) and
\* with nothing of the chunk before it.
C15_SectionStartsWithoutOverlap ==
    ck.pc = "returned" =>
        \A i \in 1..Len(ck.chunks) :
            (i = 1 \/ ck.chunk_section[i - 1] # ck.chunk_section[i]) =>
                LET words == ck.sections[ck.chunk_section[i]].words
                    text == ck.chunks[i].text
                    ends == {k \in 1..Len(words) : words[k] < 0 \/ k = Len(words)}
                    sentence == CHOOSE k \in ends : \A j \in ends : k <= j
                    n == IF sentence > 500 THEN sentence \div 2 ELSE sentence
                IN  /\ Len(text) >= n
                    /\ SubSeq(text, 1, n) = SubSeq(words, 1, n)

\* C15, witness: a call returns the chunk of one section and then the chunk
\* of the next section, which does not begin with the last 100 words of the
\* chunk before it.
C15_Witness ==
    /\ ck.pc = "returned"
    /\ \E i \in 1..(Len(ck.chunks) - 1) :
          /\ ck.chunk_section[i] # ck.chunk_section[i + 1]
          /\ Len(ck.chunks[i].text) >= 100
          /\ Len(ck.chunks[i + 1].text) >= 100
          /\ SubSeq(ck.chunks[i + 1].text, 1, 100)
                # SubSeq(ck.chunks[i].text, Len(ck.chunks[i].text) - 99,
                         Len(ck.chunks[i].text))

\* C15, as the claim has it: every returned chunk but the first begins with
\* the trailing 100 words of the chunk before it, across sections too.
C15_OverlapAcrossSections ==
    ck.pc = "returned" =>
        \A i \in 1..(Len(ck.chunks) - 1) :
            LET prev == ck.chunks[i].text
                next == ck.chunks[i + 1].text
                tail == IF Len(prev) <= 100 THEN prev
                        ELSE SubSeq(prev, Len(prev) - 99, Len(prev))
            IN  /\ Len(next) >= Len(tail)
                /\ SubSeq(next, 1, Len(tail)) = tail

\* C16: what find_relevant_chunks returns is a subsequence, in the order of
\* the query, of the records the index query returned: at most n_results
\* entries, as many texts as metadata, text j and metadata j of the same
\* query result; and when no result passes the threshold both are empty and
\* the call does not fail.
C16_OrderedSubsequenceOfQuery ==
    Searched =>
        /\ Len(qa.hits) <= n_results
        /\ Len(qa.relevant_chunks) = Len(qa.sources)
        /\ Len(qa.relevant_chunks) <= Len(qa.hits)
        /\ \E K \in SUBSET (1..Len(qa.hits)) :
              LET at == SortedSeq(K)
              IN  /\ Len(at) = Len(qa.relevant_chunks)
                  /\ \A j \in 1..Len(at) :
                        LET record == index[qa.hits[at[j]]]
                        IN  /\ qa.relevant_chunks[j] = record.document
                            /\ qa.sources[j].source = record.metadata.source
                            /\ qa.sources[j].chunk_type = record.metadata.chunk_type
                            /\ qa.sources[j].word_count = record.metadata.word_count
                            /\ qa.sources[j].similarity_score * 10 + 5 >= ONE - qa.distances[at[j]]
                            /\ qa.sources[j].similarity_score * 10 - 5 <= ONE - qa.distances[at[j]]
        /\ (\A i \in 1..Len(qa.distances) : ONE - qa.distances[i] <= similarity_threshold) =>
              qa.relevant_chunks = <<>> /\ qa.sources = <<>> /\ qa.pc = "returned"

\* C16, witness: of a collection of more than n_results records the query
\* returned n_results, not in the order of their insertion, and the first
\* two of them were kept.
C16_Witness ==
    /\ Searched
    /\ Len(index) > n_results
    /\ Len(qa.hits) = n_results
    /\ qa.hits[1] > qa.hits[2]
    /\ Len(qa.relevant_chunks) = 2
    /\ qa.relevant_chunks[1] = index[qa.hits[1]].document
    /\ qa.relevant_chunks[2] = index[qa.hits[2]].document

\* C17: a step that answers a question, whether get_answer returns an
\* answer, returns the fallback or raises, leaves the index, the ingestion
\* frame and the session's store as they were; a call in which the engine,
\* the query or the synthesis failed ends raised, with no answer and no
\* citation.
C17_AnsweringLeavesIndex ==
    [][qa'.pc # "none" /\ qa' # qa =>
          /\ index' = index
          /\ uuid_next' = uuid_next
          /\ pd' = pd
          /\ vector_store' = vector_store
          /\ documents_processed' = documents_processed
          /\ qa'.pc \in {"returned", "raised"}
          /\ qa'.pc = "raised" <=> qa'.error # "none"
          /\ qa'.pc = "raised" => qa'.answer = "none" /\ qa'.cited_sources = <<>>
          /\ qa'.pc = "returned" => qa'.answer \in {"fallback", "llm"}]_vars

\* C17, witness: on an index that holds records and with the session ready,
\* a question has failed in the index query.
C17_Witness ==
    /\ index # <<>>
    /\ documents_processed
    /\ qa.store = "collection"
    /\ qa.pc = "raised"
    /\ qa.error = "search"

\* The text holds a sentence of more than 500 words.
HasLongSentence(text) ==
    LET sections == SplitSections(text)
    IN  \E i \in 1..Len(sections) :
            LET sentences == SplitSentences(sections[i])
            IN  \E j \in 1..Len(sentences) :
                    Len(sentences[j].words) > long_sentence_words

\* The words of c stand in t, side by side and in the same order.
IsSlice(c, t) ==
    \E i \in 0..(Len(t) - Len(c)) : SubSeq(t, i + 1, i + Len(c)) = c

\* C18, as the claim has it: a call on a text that holds a sentence of more
\* than 500 words returns, and every chunk it returns is a run of words of
\* the text in their original order.
C18_LongSentenceHalvedInOrder ==
    ck.pc \in {"returned", "raised"} /\ ~TextTooShort(ck.text)
        /\ HasLongSentence(ck.text) =>
        /\ ck.pc = "returned"
        /\ \A i \in 1..Len(ck.chunks) : IsSlice(ck.chunks[i].text, ck.text)

\* C18, the half of the claim about order taken alone: when a call on a text
\* with a sentence of more than 500 words does return, every chunk is a run
\* of words of the text in their original order.
C18_ReturnedHalvesInOrder ==
    ck.pc = "returned" /\ HasLongSentence(ck.text) =>
        \A i \in 1..Len(ck.chunks) : IsSlice(ck.chunks[i].text, ck.text)

\* The places of the index whose record came from file i of the call st.
RecordsOfFile(st, i) == {k \in 1..Len(index) : index[k].origin = <<st.run, i>>}

\* C19, as the claim has it: when the call has returned, every file it was
\* given either was counted as processed and has every chunk that was
\* embedded for it in the index, or has no record in the index at all.
C19_AllOrNothingPerDocument ==
    pd.pc = "returned" =>
        \A i \in 1..Len(pd.uploaded_files) :
            \/ /\ pd.outcomes[i] = "processed"
               /\ RecordsOfFile(pd, i) # {}
               /\ Cardinality(RecordsOfFile(pd, i))
                     = Cardinality({k \in 1..Len(pd.all_origins) :
                                       pd.all_origins[k] = <<pd.run, i>>})
            \/ /\ pd.outcomes[i] # "processed"
               /\ RecordsOfFile(pd, i) = {}

\* C20: an embedding batch appends at most 50 chunks, the next ones of the
\* file's chunks in order, and moves batch_i on by 50; a storage batch
\* writes at most 100 records, the slice of the accumulated lists from add_i
\* on, behind the batches written before it, and moves add_i on by 100;
\* storage starts only after the last file and with add_i = 0, and the
\* accumulated lists do not change while it runs.
C20_BatchesInSequence ==
    [][/\ pd.pc = "embed" /\ pd' # pd /\ Len(pd'.all_chunks) # Len(pd.all_chunks) =>
              LET n == Len(pd'.all_chunks) - Len(pd.all_chunks)
              IN  /\ n \in 1..50
                  /\ n = Min({50, Len(pd.chunk_data) - pd.batch_i})
                  /\ pd.batch_i % 50 = 0
                  /\ pd'.all_chunks = pd.all_chunks \o
                         [k \in 1..n |-> pd.chunk_data[pd.batch_i + k].text]
                  /\ pd'.pc = "embed" => pd'.batch_i = pd.batch_i + 50
                                            /\ pd'.chunk_data = pd.chunk_data
       /\ pd.pc # "store" /\ pd'.pc = "store" =>
              /\ pd'.add_i = 0
              /\ pd'.file_i = Len(pd'.uploaded_files)
              /\ index' = pd'.index0
       /\ pd.pc = "store" /\ pd' # pd =>
              /\ pd'.all_chunks = pd.all_chunks
              /\ pd'.all_ids = pd.all_ids
              /\ pd.add_i % 100 = 0
              /\ pd.add_i < Len(pd.all_chunks)
              /\ index = pd.index0 \o RunRecords(pd, 0, pd.add_i)
              /\ index' # index =>
                    LET end_idx == Min({pd.add_i + 100, Len(pd.all_chunks)})
                    IN  /\ index' = index \o RunRecords(pd, pd.add_i, end_idx)
                        /\ Len(index') - Len(index) \in 1..100
                        /\ pd'.add_i = pd.add_i + 100
                        /\ pd'.pc = "store" <=> pd'.add_i < Len(pd.all_chunks)]_vars

\* C20, witness: a call has returned after writing, in two storage batches
\* of 100 and fewer records, more than 100 chunks that were embedded in
\* three batches of one file.
C20_Witness ==
    /\ pd.pc = "returned"
    /\ pd.add_i = 200
    /\ Len(pd.all_chunks) \in 101..200
    /\ Cardinality({k \in 1..Len(pd.all_origins) :
                       pd.all_origins[k] = pd.all_origins[1]}) > 100
    /\ index = pd.index0 \o RunRecords(pd, 0, Len(pd.all_chunks))

\* The chunks of every file of FileKinds that can be extracted and chunked.
ChunksOfKind ==
    [f \in SoundKinds |->
        LET ex == IF Lower(f.suffix) = ".pdf" THEN extract_text_from_pdf(f)
                  ELSE extract_text_from_txt(f)
        IN  smart_chunk_text(ex.text, Name(f)).chunks]

\* The four accumulated lists of the call have one length, and place k of
\* each belongs to the same chunk.
ListsAligned(st) ==
    /\ Len(st.all_metadatas) = Len(st.all_chunks)
    /\ Len(st.all_ids) = Len(st.all_chunks)
    /\ Len(st.all_embeddings) = Len(st.all_chunks)
    /\ \A k \in 1..Len(st.all_chunks) :
          /\ st.all_embeddings[k] = Encode(st.all_chunks[k])
          /\ st.all_metadatas[k].word_count = Len(st.all_chunks[k])
          /\ st.all_metadatas[k].source = Name(st.uploaded_files[st.all_origins[k][2]])

\* C21, as the claim has it: when the call has returned, the records added
\* to the index are the chunks of the processed files and no others, each
\* once, file after file and chunk after chunk, every record holding the id,
\* embedding, text and metadata of one chunk; and a call with a processed
\* file has added a record.
C21_AddedAreChunksOfProcessed ==
    pd.pc = "returned" =>
        LET added == SubSeq(index, Len(pd.index0) + 1, Len(index))
            ofFile(i) == {k \in 1..Len(added) : added[k].origin = <<pd.run, i>>}
        IN  /\ ListsAligned(pd)
            /\ SubSeq(index, 1, Len(pd.index0)) = pd.index0
            /\ added = RunRecords(pd, 0, Len(pd.all_chunks))
            /\ ProcessedFiles(pd) # {} => added # <<>>
            /\ \A k \in 1..Len(added) :
                  /\ pd.outcomes[added[k].origin[2]] = "processed"
                  /\ k > 1 => added[k - 1].origin[2] <= added[k].origin[2]
            /\ \A i \in ProcessedFiles(pd) :
                  LET chunks == ChunksOfKind[pd.uploaded_files[i]]
                      first == Min(ofFile(i))
                  IN  /\ Cardinality(ofFile(i)) = Len(chunks)
                      /\ \A c \in 1..Len(chunks) :
                            /\ added[first + c - 1].origin = <<pd.run, i>>
                            /\ added[first + c - 1].document = chunks[c].text
                            /\ added[first + c - 1].metadata = chunks[c].meta

\* C21, the part about the lists taken alone: at every point of a call the
\* four accumulated lists have one length and are aligned, and a call that
\* has returned has added exactly the accumulated chunks, in their order,
\* behind the records the index held.
C21_AddedAreAccumulated ==
    /\ ListsAligned(pd)
    /\ pd.pc = "returned" =>
          index = pd.index0 \o RunRecords(pd, 0, Len(pd.all_chunks))

\* C22: a step that changes the index is a storage step of a call whose
\* loop over the files has ended, every file of it having its outcome, with
\* at least one file processed; and a call that ends raising for no files or
\* for no processed file leaves the index as the call found it.
C22_NoWriteBeforeAllFiles ==
    [][/\ index' # index =>
              /\ pd.pc = "store"
              /\ pd.file_i = Len(pd.uploaded_files)
              /\ Len(pd.outcomes) = Len(pd.uploaded_files)
              /\ pd.processed_files >= 1
              /\ pd'.all_chunks = pd.all_chunks
       /\ pd'.pc = "raised" /\ pd'.error \in {"no_files", "none_processed"} =>
              /\ index' = pd'.index0
              /\ index' = index]_vars

\* C22, witness: on an index that held records, a call has raised for no
\* processed file after chunks of its file had been embedded and
\* accumulated; the index is as the call found it.
C22_Witness ==
    /\ pd.pc = "raised"
    /\ pd.error = "none_processed"
    /\ pd.index0 # <<>>
    /\ pd.all_chunks # <<>>
    /\ index = pd.index0

\* C23: the word_count of every chunk is the number of words of its text,
\* and inside the sentence loop and at the flush the running count is the
\* number of words in the buffer.
C23_WordCountIsWordsOfText ==
    /\ \A i \in 1..Len(ck.chunks) :
          ck.chunks[i].meta.word_count = Len(ck.chunks[i].text)
    /\ ck.pc \in {"sentence", "flush"} => ck.current_length = Len(ck.current_chunk)

\* C23, witness: a call has returned a chunk that begins with the last 100
\* words of the chunk before it, goes on with further words, and has the
\* number of its words as word_count.
C23_Witness ==
    /\ ck.pc = "returned"
    /\ \E i \in 2..Len(ck.chunks) :
          LET prev == ck.chunks[i - 1].text
              this == ck.chunks[i]
          IN  /\ ck.chunk_section[i - 1] = ck.chunk_section[i]
              /\ Len(prev) >= 100
              /\ Len(this.text) > 100
              /\ SubSeq(this.text, 1, 100) = SubSeq(prev, Len(prev) - 99, Len(prev))
              /\ this.meta.word_count = Len(this.text)
              /\ this.meta.word_count < target_chunk_size

\* C24: every call of smart_chunk_text ends, returning or raising, whatever
\* the lengths of its sentences and however often a sentence is repeated,
\* the sentence list being lengthened while the loop runs over it.
C24_ChunkerTerminates == <>(ck.pc \in {"returned", "raised"})

\* C24, witness: a call has returned whose sentence loop ran over a list
\* that two halvings of the same long sentence had lengthened by two.
C24_Witness ==
    /\ ck.pc = "returned"
    /\ Len(ck.sections) = 1
    /\ Len(ck.sentences) = Len(SplitSentences(ck.sections[1])) + 2
    /\ \E i, j \in 1..Len(ck.sentences) :
          /\ i < j
          /\ ck.sentences[i] = ck.sentences[j]
          /\ Len(ck.sentences[i].words) > long_sentence_words

====
